---- MODULE Spec2Model ----
(***************************************************************************)
(* A model of src/app.py: the BatchID counter client, the header helpers   *)
(* (norm, clean_header, dedupe_columns, find_column_by_name_like) and the  *)
(* template writer of process_file.                                        *)
(***************************************************************************)
EXTENDS Integers, Sequences, FiniteSets, TLC

VARIABLES
    \* ---- BatchID counter client (app.py 64-128) ----
    remote,      \* the integer in cell A1 behind the Apps Script web app
    localFile,   \* batch_id_counter.json: [st |-> "absent" | "corrupt" | "ok", v |-> Int]
    active,      \* the runs (Streamlit sessions) that may call the client
    pc,          \* pc[p]: where run p stands inside get_and_increment_batch_id
    cur,         \* cur[p]: the local variable `current` of run p
    failed,      \* failed[p]: the remote path of run p's call in progress raised
    seen,        \* seen[p]: the file state run p's _local_read looked at
    started,     \* number of calls started so far
    log,         \* the finished calls, in order of completion
    remote0,     \* the remote counter at the start
    next_id,     \* next_id[p]: what run p's last peek_next_batch_id returned (0: none yet)
    \* ---- dedupe_columns (app.py 154-165) ----
    columns,     \* the argument: the header row's cells
    result,      \* the returned list
    dpc,         \* "in" before the call, "out" after it
    \* ---- find_column_by_name_like (app.py 178-192) ----
    fcols,       \* src_df.columns
    fname,       \* the argument `name`
    fres,        \* the returned column, NaN standing for None
    fpc,         \* "in" before the call, "out" after it
    \* ---- process_file (app.py 248-424) ----
    wpc,                   \* the step process_file has reached
    src_df,                \* the table read_input_to_df returned
    marketplace,           \* the arguments of process_file
    selected_variant_col,
    selected_product_col,
    template,              \* the workbook stored at TEMPLATE_PATH
    batch_id,              \* the claimed BatchID
    columns_meta,          \* one entry per source column
    option1_data,          \* the Option 1 series
    option2_data,          \* the Option 2 series
    ws_vals,               \* the sheet "Values" of the loaded workbook
    ws_types,              \* the sheet "Types" of the loaded workbook
    vals_start_col,        \* first column written in Values
    types_start_col,       \* first column written in Types
    vplace,                \* field |-> the Values column it was written to
    tplace                 \* field |-> the Types column it was written to

batchVars == <<remote, localFile, active, pc, cur, failed, seen, started, log, remote0>>
peekVars == <<next_id>>
dedupeVars == <<columns, result, dpc>>
findVars == <<fcols, fname, fres, fpc>>
writerVars ==
    <<wpc, src_df, marketplace, selected_variant_col, selected_product_col, template,
      batch_id, columns_meta, option1_data, option2_data, ws_vals, ws_types,
      vals_start_col, types_start_col, vplace, tplace>>

vars == <<batchVars, peekVars, dedupeVars, findVars, writerVars>>

\* ------------------------------------------------------------------ bounds
MaxStart == 2      \* the counters start in 1..MaxStart
MaxCalls == 3      \* calls of get_and_increment_batch_id per behaviour

MaxLabels == 3     \* header cells given to dedupe_columns
MaxFindCols == 3   \* columns of the table given to find_column_by_name_like
MaxSrcCols == 2    \* columns of the source table given to process_file
MaxRows == 2       \* data rows of the source table
TplCols == 4       \* the template's own content lies in columns 1..TplCols
MaxHits == 7
MaxOther == 15

Procs == {1, 2}

\* ------------------------------------------------------------------- text
\* A string is a sequence of one-character strings; NaN is pandas' missing
\* value (and Python's None), which is no string.
NaN == <<"<NaN>">>
isna(x) == x = NaN

UpperCase == <<"A","B","C","D","E","F","G","H","I","J","K","L","M",
               "N","O","P","Q","R","S","T","U","V","W","X","Y","Z">>
LowerCase == <<"a","b","c","d","e","f","g","h","i","j","k","l","m",
               "n","o","p","q","r","s","t","u","v","w","x","y","z">>
Digits == <<"0","1","2","3","4","5","6","7","8","9">>
Range(f) == {f[i] : i \in DOMAIN f}

\* str.lower() on one character
lower(c) ==
    IF c \in Range(UpperCase)
    THEN LowerCase[CHOOSE i \in DOMAIN UpperCase : UpperCase[i] = c]
    ELSE c

\* what str.split(), str.strip() and the regex \s treat as whitespace
IsSpace(c) == c \in {" ", "\t", "\n"}

\* the regex class [0-9A-Za-z ]
IsAlnumOrBlank(c) ==
    c \in Range(UpperCase) \cup Range(LowerCase) \cup Range(Digits) \cup {" "}

NotSpace(c) == ~IsSpace(c)
\* str.lower()
Lowered(s) == [i \in 1..Len(s) |-> lower(s[i])]

Min(S) == CHOOSE x \in S : \A y \in S : x <= y
Max(S) == CHOOSE x \in S : \A y \in S : x >= y

\* str(n) for a natural number
RECURSIVE str(_)
str(n) == IF n < 10 THEN <<Digits[n + 1]>> ELSE str(n \div 10) \o <<Digits[(n % 10) + 1]>>

\* s.strip()
strip(s) ==
    LET keep == {i \in 1..Len(s) : ~IsSpace(s[i])}
    IN IF keep = {} THEN <<>> ELSE SubSeq(s, Min(keep), Max(keep))

\* `sub in s`
Contains(sub, s) ==
    \E i \in 0..(Len(s) - Len(sub)) : SubSeq(s, i + 1, i + Len(sub)) = sub

\* s.endswith(suffix)
EndsWith(s, suffix) ==
    /\ Len(suffix) <= Len(s)
    /\ SubSeq(s, Len(s) - Len(suffix) + 1, Len(s)) = suffix

\* norm: "" for a missing value, else all whitespace removed and lowercased.
norm(s) == IF isna(s) THEN <<>> ELSE Lowered(SelectSeq(s, NotSpace))

\* clean_header: "" for a missing value; every character outside
\* [0-9A-Za-z ] becomes a space, runs of whitespace collapse to one space,
\* and the ends are trimmed.
Blanked(c) == IF IsAlnumOrBlank(c) THEN c ELSE " "
Collapse(s) ==
    LET keep == {i \in 1..Len(s) : ~(IsSpace(s[i]) /\ i > 1 /\ IsSpace(s[i - 1]))}
        pos == [k \in 1..Cardinality(keep) |->
                   CHOOSE i \in keep : Cardinality({j \in keep : j <= i}) = k]
    IN [k \in 1..Cardinality(keep) |-> IF IsSpace(s[pos[k]]) THEN " " ELSE s[pos[k]]]
clean_header(header) ==
    IF isna(header) THEN <<>>
    ELSE strip(Collapse([i \in 1..Len(header) |-> Blanked(header[i])]))

\* the string literals of app.py
S_Unnamed == <<"U","n","n","a","m","e","d">>
S_Option1 == <<"O","p","t","i","o","n"," ","1">>
S_Option2 == <<"O","p","t","i","o","n"," ","2">>
S_variantId == <<"v","a","r","i","a","n","t","I","d">>
S_productId == <<"p","r","o","d","u","c","t","I","d">>
S_BatchID == <<"B","a","t","c","h","I","D">>
S_mandatory == <<"m","a","n","d","a","t","o","r","y">>
S_non_mandatory == <<"n","o","n"," ","m","a","n","d","a","t","o","r","y">>
S_select == <<"s","e","l","e","c","t">>
S_string == <<"s","t","r","i","n","g">>
S_imageurlarray == <<"i","m","a","g","e","u","r","l","a","r","r","a","y">>
S_size == <<"s","i","z","e">>
S_color == <<"c","o","l","o","r">>
S_colour == <<"c","o","l","o","u","r">>
S_none == <<"(","n","o","n","e",")">>
S_ParentSKU == <<"P","a","r","e","n","t"," ","S","K","U">>
S_SKU == <<"S","K","U">>
S_styleId == <<"s","t","y","l","e","I","d">>
S_styleGroupId == <<"s","t","y","l","e","G","r","o","u","p","I","d">>
S_ItemSKU == <<"*","I","t","e","m"," ","S","K","U">>
S_StarStyleCode == <<"*","S","t","y","l","e"," ","C","o","d","e">>
S_SellerSKUID == <<"S","e","l","l","e","r"," ","S","K","U"," ","I","D">>
S_StyleCode == <<"S","t","y","l","e"," ","C","o","d","e">>
S_SellerArticleSKU == <<"S","e","l","l","e","r"," ","A","r","t","i","c","l","e"," ","S","K","U">>
S_SKUCode == <<"S","K","U"," ","C","o","d","e">>
S_ParentageLevel == <<"P","a","r","e","n","t","a","g","e"," ","L","e","v","e","l">>

IMAGE_KEYWORDS ==
    {<<"i","m","a","g","e">>,
     <<"i","m","g">>,
     <<"p","i","c","t","u","r","e">>,
     <<"p","h","o","t","o">>,
     <<"t","h","u","m","b","n","a","i","l">>,
     <<"t","h","u","m","b">>,
     <<"h","e","r","o">>,
     <<"f","r","o","n","t">>,
     <<"b","a","c","k">>,
     <<"u","r","l">>}

\* the alternatives of IMAGE_EXT_RE = (?i)\.(jpe?g|png|gif|bmp|webp|tiff?)$
IMAGE_EXTS ==
    {<<".","j","p","g">>,
     <<".","j","p","e","g">>,
     <<".","p","n","g">>,
     <<".","g","i","f">>,
     <<".","b","m","p">>,
     <<".","w","e","b","p">>,
     <<".","t","i","f">>,
     <<".","t","i","f","f">>}

\* marketplace |-> <<productId source header, variantId source header>>
MARKETPLACE_ID_MAP ==
    [m \in {"Amazon", "Myntra", "Ajio", "Flipkart", "TataCliq", "Zivame", "Celio"} |->
        CASE m = "Amazon"   -> <<S_ParentSKU, S_SKU>>
          [] m = "Myntra"   -> <<S_styleId, S_styleGroupId>>
          [] m = "Ajio"     -> <<S_ItemSKU, S_StarStyleCode>>
          [] m = "Flipkart" -> <<S_SellerSKUID, S_StyleCode>>
          [] m = "TataCliq" -> <<S_SellerArticleSKU, S_StarStyleCode>>
          [] m = "Zivame"   -> <<S_StyleCode, S_SKUCode>>
          [] m = "Celio"    -> <<S_StyleCode, S_SKUCode>>]

\* ------------------------------------------------ BatchID counter client
\* APPS_SCRIPT_URL is a non-empty literal, so `if APPS_SCRIPT_URL:` is taken.
AppsScriptUrlSet == TRUE

Absent == [st |-> "absent", v |-> 0]
Corrupt == [st |-> "corrupt", v |-> 0]
FileOf(v) == [st |-> "ok", v |-> v]

\* _local_read: the stored "v" when the file exists and parses, else 1.
LocalDefault == 1
_local_read(f) == IF f.st = "ok" THEN f.v ELSE LocalDefault

\* _local_write(v): the file is replaced by {"v": v}.
_local_write(v) == FileOf(v)

\* A client without the except clause: the failure leaves the function.
OnRemoteExceptionMutant == "propagate"
\* `except Exception as e: st.warning(...)`: the failure is swallowed and the
\* function goes on to the fallback.
OnRemoteException == "local_read"

\* What the remote write posts: current + 1.
NextId(current) == current + 1

Entry(p, id, path) ==
    [p |-> p, id |-> id, path |-> path, failed |-> failed[p],
     seen |-> seen[p], fileAfter |-> localFile']

\* The remote path raised in run p: handled by the except clause.
Raised(p) ==
    IF OnRemoteException = "local_read"
    THEN /\ pc' = [pc EXCEPT ![p] = "local_read"]
         /\ failed' = [failed EXCEPT ![p] = TRUE]
         /\ log' = log
    ELSE /\ pc' = [pc EXCEPT ![p] = "idle"]
         /\ failed' = [failed EXCEPT ![p] = FALSE]
         /\ log' = Append(log, [p |-> p, id |-> 0, path |-> "error", failed |-> TRUE,
                                seen |-> seen[p], fileAfter |-> localFile])

Call(p) ==
    /\ pc[p] = "idle"
    /\ started < MaxCalls
    /\ started' = started + 1
    /\ pc' = [pc EXCEPT ![p] = IF AppsScriptUrlSet THEN "remote_read" ELSE "local_read"]
    /\ failed' = [failed EXCEPT ![p] = FALSE]
    /\ seen' = [seen EXCEPT ![p] = Absent]
    /\ UNCHANGED <<remote, localFile, active, cur, log, remote0>>

\* current = _remote_read()
RemoteReadOk(p) ==
    /\ pc[p] = "remote_read"
    /\ cur' = [cur EXCEPT ![p] = remote]
    /\ pc' = [pc EXCEPT ![p] = "remote_write"]
    /\ UNCHANGED <<remote, localFile, active, failed, seen, started, log, remote0>>

\* _remote_read() raises (connection error, timeout, HTTP error, bad JSON)
RemoteReadFail(p) ==
    /\ pc[p] = "remote_read"
    /\ Raised(p)
    /\ UNCHANGED <<remote, localFile, active, cur, seen, started, remote0>>

\* _remote_write(current + 1); return current
RemoteWriteOk(p) ==
    /\ pc[p] = "remote_write"
    /\ remote' = NextId(cur[p])
    /\ localFile' = localFile
    /\ log' = Append(log, Entry(p, cur[p], "remote"))
    /\ pc' = [pc EXCEPT ![p] = "idle"]
    /\ UNCHANGED <<active, cur, failed, seen, started, remote0>>

\* _remote_write raises; the POST may or may not have reached the sheet
\* (a timeout or an error status after doPost ran).
RemoteWriteFail(p) ==
    /\ pc[p] = "remote_write"
    /\ \E applied \in BOOLEAN :
          remote' = IF applied THEN NextId(cur[p]) ELSE remote
    /\ Raised(p)
    /\ UNCHANGED <<localFile, active, cur, seen, started, remote0>>

\* current = _local_read()
LocalRead(p) ==
    /\ pc[p] = "local_read"
    /\ cur' = [cur EXCEPT ![p] = _local_read(localFile)]
    /\ seen' = [seen EXCEPT ![p] = localFile]
    /\ pc' = [pc EXCEPT ![p] = "local_write"]
    /\ UNCHANGED <<remote, localFile, active, failed, started, log, remote0>>

\* _local_write(current + 1); return current
LocalWrite(p) ==
    /\ pc[p] = "local_write"
    /\ localFile' = _local_write(cur[p] + 1)
    /\ log' = Append(log, Entry(p, cur[p], "local"))
    /\ pc' = [pc EXCEPT ![p] = "idle"]
    /\ UNCHANGED <<remote, active, cur, failed, seen, started, remote0>>

\* peek_next_batch_id (the page's `next_id = peek_next_batch_id()`), entered
\* by a run that is not inside a call.
PeekCall(p) ==
    /\ pc[p] = "idle"
    /\ pc' = [pc EXCEPT ![p] = IF AppsScriptUrlSet THEN "peek_remote" ELSE "peek_local"]
    /\ UNCHANGED <<remote, localFile, active, cur, failed, seen, started, log, remote0,
                   next_id>>

\* A peek that advances the counter it reads, as a claim does.
PeekRemoteOkConsuming(p) ==
    /\ pc[p] = "peek_remote"
    /\ next_id' = [next_id EXCEPT ![p] = remote]
    /\ remote' = NextId(remote)
    /\ pc' = [pc EXCEPT ![p] = "idle"]
    /\ UNCHANGED <<localFile, active, cur, failed, seen, started, log, remote0>>
\* return _remote_read()
PeekRemoteOk(p) ==
    /\ pc[p] = "peek_remote"
    /\ next_id' = [next_id EXCEPT ![p] = remote]
    /\ pc' = [pc EXCEPT ![p] = "idle"]
    /\ UNCHANGED <<remote, localFile, active, cur, failed, seen, started, log, remote0>>

\* _remote_read() raises; `except Exception: pass`
PeekRemoteFail(p) ==
    /\ pc[p] = "peek_remote"
    /\ pc' = [pc EXCEPT ![p] = "peek_local"]
    /\ UNCHANGED <<remote, localFile, active, cur, failed, seen, started, log, remote0,
                   next_id>>

\* return _local_read()
PeekLocal(p) ==
    /\ pc[p] = "peek_local"
    /\ next_id' = [next_id EXCEPT ![p] = _local_read(localFile)]
    /\ pc' = [pc EXCEPT ![p] = "idle"]
    /\ UNCHANGED <<remote, localFile, active, cur, failed, seen, started, log, remote0>>

BatchInitWith(runs) ==
    /\ remote \in 1..MaxStart
    /\ remote0 = remote
    /\ localFile \in {Absent, Corrupt} \cup {FileOf(v) : v \in 2..(MaxStart + 1)}
    /\ active = runs
    /\ pc = [p \in Procs |-> "idle"]
    /\ cur = [p \in Procs |-> 0]
    /\ failed = [p \in Procs |-> FALSE]
    /\ seen = [p \in Procs |-> Absent]
    /\ started = 0
    /\ log = <<>>
    /\ next_id = [p \in Procs |-> 0]

\* --------------------------------------------------------- dedupe_columns
\* One pass over the header cells with the dictionary `seen`: a label met
\* for the first time is kept and entered with count 0, a label met again
\* gets its count raised and "_<count>" appended.
RECURSIVE DedupeLoop(_, _, _, _)
DedupeLoop(cols, i, seenCount, res) ==
    IF i > Len(cols) THEN res
    ELSE LET col_str == IF isna(cols[i]) THEN S_Unnamed ELSE cols[i]
         IN IF col_str \in DOMAIN seenCount
            THEN DedupeLoop(cols, i + 1,
                            [seenCount EXCEPT ![col_str] = @ + 1],
                            Append(res, col_str \o <<"_">> \o str(seenCount[col_str] + 1)))
            ELSE DedupeLoop(cols, i + 1,
                            [l \in DOMAIN seenCount \cup {col_str} |->
                                IF l = col_str THEN 0 ELSE seenCount[l]],
                            Append(res, col_str))

dedupe_columns(cols) == DedupeLoop(cols, 1, <<>>, <<>>)

\* ----------------------------------------------- find_column_by_name_like
\* The column at the least index of hits, or NaN (None) when there is none:
\* what a `for c in src_df.columns: if ...: return c` loop returns.
FirstOf(cols, hits) == IF hits = {} THEN NaN ELSE cols[Min(hits)]

\* A lookup that goes straight to the substring pass.
find_column_by_name_like_SubstringFirst(cols, name) ==
    IF name = <<>> THEN NaN
    ELSE LET nname == norm(strip(name))
         IN FirstOf(cols, {i \in 1..Len(cols) : Contains(nname, norm(cols[i]))})

find_column_by_name_like(cols, name) ==
    IF name = <<>> THEN NaN
    ELSE LET nm == strip(name)
             nname == norm(nm)
             exact == {i \in 1..Len(cols) : strip(cols[i]) = nm}
             normeq == {i \in 1..Len(cols) : norm(cols[i]) = nname}
             normsub == {i \in 1..Len(cols) : Contains(nname, norm(cols[i]))}
         IN IF exact # {} THEN FirstOf(cols, exact)
            ELSE IF normeq # {} THEN FirstOf(cols, normeq)
            ELSE FirstOf(cols, normsub)

\* ------------------------------------------------------ is_image_column
SampleSize == 20
ThresholdPct == 30

\* IMAGE_EXT_RE.search(v): an extension at the end of the text ($ also
\* matches just before one trailing newline), case-insensitively.
MatchesImageExt(v) ==
    LET low == Lowered(v)
        cut == IF Len(low) > 0 /\ low[Len(low)] = "\n"
               THEN SubSeq(low, 1, Len(low) - 1) ELSE low
    IN \E e \in IMAGE_EXTS : EndsWith(low, e) \/ EndsWith(cut, e)

\* series.dropna(): the non-missing values, in order
dropna(series) == SelectSeq(series, LAMBDA v : ~isna(v))
head(series, n) == SubSeq(series, 1, IF Len(series) < n THEN Len(series) ELSE n)

is_image_column(col_header_norm, series) ==
    LET header_hit == \E k \in IMAGE_KEYWORDS : Contains(k, col_header_norm)
        sample == head(dropna(series), SampleSize)
        hits == Cardinality({i \in 1..Len(sample) : MatchesImageExt(sample[i])})
    IN \* ratio = hits / len(sample) (0.0 for an empty sample); ratio >= 0.30
       header_hit \/ (Len(sample) > 0 /\ 100 * hits >= ThresholdPct * Len(sample))

\* ------------------------------------------------------------- worksheets
\* A worksheet is openpyxl's cell dictionary: <<row, column>> |-> value, NaN
\* for a cell that exists and holds None.
EmptySheet == [k \in {} |-> NaN]
CellValue(ws, r, c) == IF <<r, c>> \in DOMAIN ws THEN ws[<<r, c>>] ELSE NaN

\* `value not in (None, "")` negated
IsBlank(v) == v = NaN \/ v = <<>>

\* ws.max_column
max_column(ws) == IF DOMAIN ws = {} THEN 1 ELSE Max({k[2] : k \in DOMAIN ws})

\* ws.cell(row, column, value=v) for every cell of upd: a None value creates
\* the cell and leaves what it holds; any other value is stored.
WriteCells(ws, upd) ==
    [k \in DOMAIN ws \cup DOMAIN upd |->
        IF k \in DOMAIN upd /\ upd[k] # NaN THEN upd[k]
        ELSE IF k \in DOMAIN ws THEN ws[k] ELSE NaN]

\* cell.value = v for every cell of upd: None is stored too.
AssignCells(ws, upd) ==
    [k \in DOMAIN ws \cup DOMAIN upd |-> IF k \in DOMAIN upd THEN upd[k] ELSE ws[k]]

\* The union of two cell updates with disjoint domains.
Both(f, g) == [k \in DOMAIN f \cup DOMAIN g |-> IF k \in DOMAIN f THEN f[k] ELSE g[k]]

\* first_empty_col: the first column of 1..200 whose cells in header_rows are
\* all blank, and ws.max_column + 1 when there is none.
ProbeWindow == 200

first_empty_col(ws, header_rows) ==
    LET empty(col_idx) == \A r \in header_rows : IsBlank(CellValue(ws, r, col_idx))
    IN IF \E col_idx \in 1..ProbeWindow : empty(col_idx)
       THEN CHOOSE col_idx \in 1..ProbeWindow :
               empty(col_idx) /\ \A c \in 1..(col_idx - 1) : ~empty(c)
       ELSE max_column(ws) + 1

ValuesProbe == {1}
TypesProbe == {1, 2, 3, 4}

\* ------------------------------------------------------------ process_file
\* src_df: [columns: the headers, data: one series per column, rows: len(src_df)]
Series(col) ==
    src_df.data[CHOOSE i \in 1..Len(src_df.columns) : src_df.columns[i] = col]
num_rows == src_df.rows

\* .fillna('').astype(str)
fillna_str(series) == [i \in 1..Len(series) |-> IF isna(series[i]) THEN <<>> ELSE series[i]]
\* .fillna('').astype(str).str.strip()
fillna_str_strip(series) ==
    [i \in 1..Len(series) |-> IF isna(series[i]) THEN <<>> ELSE strip(series[i])]

Blanks(n) == [i \in 1..n |-> <<>>]

\* series.replace("", pd.NA).dropna().unique().tolist()
RECURSIVE UniqueFrom(_, _, _)
UniqueFrom(series, i, acc) ==
    IF i > Len(series) THEN acc
    ELSE IF series[i] = <<>> \/ (\E j \in 1..Len(acc) : acc[j] = series[i])
         THEN UniqueFrom(series, i + 1, acc)
         ELSE UniqueFrom(series, i + 1, Append(acc, series[i]))
unique(series) == UniqueFrom(series, 1, <<>>)

\* [col for col in src_df.columns if ...]
color_cols ==
    SelectSeq(src_df.columns,
              LAMBDA col : Contains(S_color, norm(col)) \/ Contains(S_colour, norm(col)))
size_cols == SelectSeq(src_df.columns, LAMBDA col : Contains(S_size, norm(col)))

\* Option 1 fed from the colour column.
Option1Swapped ==
    IF Len(color_cols) > 0 THEN fillna_str_strip(Series(color_cols[1])) ELSE Blanks(num_rows)
\* lines 279-286
Option1 ==
    IF Len(size_cols) > 0 THEN fillna_str_strip(Series(size_cols[1])) ELSE Blanks(num_rows)
Option2 ==
    IF Len(size_cols) > 0
    THEN IF Len(color_cols) > 0 /\ color_cols[1] # size_cols[1]
         THEN fillna_str_strip(Series(color_cols[1])) ELSE Blanks(num_rows)
    ELSE IF Len(color_cols) > 0
         THEN fillna_str_strip(Series(color_cols[1])) ELSE Blanks(num_rows)

\* lines 269-273
ColumnsMeta ==
    [i \in 1..Len(src_df.columns) |->
        [src |-> src_df.columns[i], out |-> src_df.columns[i], row3 |-> S_mandatory,
         row4 |-> IF is_image_column(norm(src_df.columns[i]), src_df.data[i])
                  THEN S_imageurlarray ELSE S_string]]

\* The identifier series process_file hands to append_id_columns (lines
\* 387-405); NaN stands for None.
Selected(sel) ==
    IF sel # NaN /\ sel # <<>> /\ sel # S_none
       /\ (\E i \in 1..Len(src_df.columns) : src_df.columns[i] = sel)
    THEN fillna_str(Series(sel)) ELSE NaN
Resolved(role) ==
    LET col == find_column_by_name_like(src_df.columns, role)
    IN IF col # NaN /\ col # <<>> THEN fillna_str(Series(col)) ELSE NaN

variant_series ==
    IF marketplace = "General" THEN Selected(selected_variant_col)
    ELSE IF marketplace \in DOMAIN MARKETPLACE_ID_MAP
         THEN Resolved(MARKETPLACE_ID_MAP[marketplace][2]) ELSE NaN
product_series ==
    IF marketplace = "General" THEN Selected(selected_product_col)
    ELSE IF marketplace \in DOMAIN MARKETPLACE_ID_MAP
         THEN Resolved(MARKETPLACE_ID_MAP[marketplace][1]) ELSE NaN

\* series.replace("", pd.NA).dropna().shape[0] > 0
HasValue(series) ==
    series # NaN /\ \E i \in 1..Len(series) : series[i] # <<>>

\* Cell updates: a header block in rows 1.. of one column, a column of data.
HeaderCells(col, labels) == [k \in {<<r, col>> : r \in 1..Len(labels)} |-> labels[k[1]]]
DataCells(col, first, series) ==
    [k \in {<<r, col>> : r \in first..(first + Len(series) - 1)} |-> series[k[1] - first + 1]]
\* v if v else None
OrNone(series) == [i \in 1..Len(series) |-> IF series[i] = <<>> THEN NaN ELSE series[i]]

RECURSIVE MergeAll(_, _)
MergeAll(fs, i) == IF i > Len(fs) THEN EmptySheet ELSE Both(fs[i], MergeAll(fs, i + 1))

\* line 265: batch_id = get_and_increment_batch_id(), by run 1
ClaimBatchId ==
    /\ wpc = "claim"
    /\ Len(log) = 0
    /\ \/ Call(1)
       \/ RemoteReadOk(1)
       \/ RemoteReadFail(1)
       \/ RemoteWriteOk(1)
       \/ RemoteWriteFail(1)
       \/ LocalRead(1)
       \/ LocalWrite(1)
    /\ UNCHANGED writerVars

\* lines 266-289: the claimed id, columns_meta and the two option series
Classify ==
    /\ wpc = "claim"
    /\ Len(log) = 1
    /\ batch_id' = log[1].id
    /\ columns_meta' = ColumnsMeta
    /\ option1_data' = Option1
    /\ option2_data' = Option2
    /\ wpc' = "load"
    /\ UNCHANGED <<src_df, marketplace, selected_variant_col, selected_product_col,
                   template, ws_vals, ws_types, vals_start_col, types_start_col,
                   vplace, tplace>>

\* lines 291-308: load the template and probe both sheets
LoadWorkbook ==
    /\ wpc = "load"
    /\ ws_vals' = template.Values
    /\ ws_types' = template.Types
    /\ vals_start_col' = first_empty_col(template.Values, ValuesProbe)
    /\ types_start_col' = first_empty_col(template.Types, TypesProbe)
    /\ wpc' = "meta"
    /\ UNCHANGED <<src_df, marketplace, selected_variant_col, selected_product_col,
                   template, batch_id, columns_meta, option1_data, option2_data,
                   vplace, tplace>>

\* lines 310-329: one column per entry of columns_meta
WriteMeta ==
    /\ wpc = "meta"
    /\ LET n == Len(columns_meta)
           vcol(idx) == vals_start_col + idx
           tcol(idx) == types_start_col + idx
           header_display(idx) == clean_header(columns_meta[idx + 1].out)
           vupd == MergeAll([i \in 1..n |->
                      Both(HeaderCells(vcol(i - 1), <<header_display(i - 1)>>),
                           DataCells(vcol(i - 1), 2, Series(columns_meta[i].src)))], 1)
           tupd == MergeAll([i \in 1..n |->
                      HeaderCells(tcol(i - 1),
                                  <<header_display(i - 1), header_display(i - 1),
                                    columns_meta[i].row3, columns_meta[i].row4>>)], 1)
       IN /\ ws_vals' = AssignCells(ws_vals, vupd)
          /\ ws_types' = WriteCells(ws_types, tupd)
          /\ vplace' = [f \in {<<"meta", i>> : i \in 1..n} |-> vcol(f[2] - 1)]
          /\ tplace' = [f \in {<<"meta", i>> : i \in 1..n} |-> tcol(f[2] - 1)]
    /\ wpc' = "options"
    /\ UNCHANGED <<src_df, marketplace, selected_variant_col, selected_product_col,
                   template, batch_id, columns_meta, option1_data, option2_data,
                   vals_start_col, types_start_col>>

\* lines 331-354: Option 1 and Option 2
WriteOptions ==
    /\ wpc = "options"
    /\ LET opt1_vcol == vals_start_col + Len(columns_meta)
           opt2_vcol == opt1_vcol + 1
           opt1_tcol == types_start_col + Len(columns_meta)
           opt2_tcol == opt1_tcol + 1
           vupd == Both(Both(HeaderCells(opt1_vcol, <<S_Option1>>),
                             DataCells(opt1_vcol, 2, OrNone(option1_data))),
                        Both(HeaderCells(opt2_vcol, <<S_Option2>>),
                             DataCells(opt2_vcol, 2, OrNone(option2_data))))
           tupd == Both(Both(HeaderCells(opt1_tcol,
                                         <<S_Option1, S_Option1, S_non_mandatory, S_select>>),
                             DataCells(opt1_tcol, 5, unique(option1_data))),
                        Both(HeaderCells(opt2_tcol,
                                         <<S_Option2, S_Option2, S_non_mandatory, S_select>>),
                             DataCells(opt2_tcol, 5, unique(option2_data))))
       IN /\ ws_vals' = WriteCells(ws_vals, vupd)
          /\ ws_types' = WriteCells(ws_types, tupd)
          /\ vplace' = Both(vplace, [f \in {<<"opt", 1>>, <<"opt", 2>>} |->
                                        IF f[2] = 1 THEN opt1_vcol ELSE opt2_vcol])
          /\ tplace' = Both(tplace, [f \in {<<"opt", 1>>, <<"opt", 2>>} |->
                                        IF f[2] = 1 THEN opt1_tcol ELSE opt2_tcol])
    /\ wpc' = "ids"
    /\ UNCHANGED <<src_df, marketplace, selected_variant_col, selected_product_col,
                   template, batch_id, columns_meta, option1_data, option2_data,
                   vals_start_col, types_start_col>>

\* lines 356-405: append_id_columns(variant_series, product_series)
AppendIdColumns ==
    /\ wpc = "ids"
    /\ LET has_var == HasValue(variant_series)
           has_prod == HasValue(product_series)
           after_written_vals == vals_start_col + Len(columns_meta) + 2
           after_written_types == types_start_col + Len(columns_meta) + 2
           prod_v == IF has_var THEN after_written_vals + 1 ELSE after_written_vals
           prod_t == IF has_var THEN after_written_types + 1 ELSE after_written_types
           IdHeader(label) == <<label, label, S_mandatory, S_string>>
           vvar == IF has_var
                   THEN Both(HeaderCells(after_written_vals, <<S_variantId>>),
                             DataCells(after_written_vals, 2, OrNone(variant_series)))
                   ELSE EmptySheet
           vprod == IF has_prod
                    THEN Both(HeaderCells(prod_v, <<S_productId>>),
                              DataCells(prod_v, 2, OrNone(product_series)))
                    ELSE EmptySheet
           tvar == IF has_var THEN HeaderCells(after_written_types, IdHeader(S_variantId))
                   ELSE EmptySheet
           tprod == IF has_prod THEN HeaderCells(prod_t, IdHeader(S_productId))
                    ELSE EmptySheet
           ids == (IF has_var THEN {<<"id", 1>>} ELSE {}) \cup
                  (IF has_prod THEN {<<"id", 2>>} ELSE {})
       IN /\ ws_vals' = WriteCells(ws_vals, Both(vvar, vprod))
          /\ ws_types' = WriteCells(ws_types, Both(tvar, tprod))
          /\ vplace' = Both(vplace, [f \in ids |->
                                        IF f[2] = 1 THEN after_written_vals ELSE prod_v])
          /\ tplace' = Both(tplace, [f \in ids |->
                                        IF f[2] = 1 THEN after_written_types ELSE prod_t])
    /\ wpc' = "batch"
    /\ UNCHANGED <<src_df, marketplace, selected_variant_col, selected_product_col,
                   template, batch_id, columns_meta, option1_data, option2_data,
                   vals_start_col, types_start_col>>

\* lines 407-418: the BatchID column
WriteBatchId ==
    /\ wpc = "batch"
    /\ LET batch_id_str == str(batch_id)
           bv_col == first_empty_col(ws_vals, ValuesProbe)
           bt_col == first_empty_col(ws_types, TypesProbe)
       IN /\ ws_vals' = WriteCells(ws_vals,
                            Both(HeaderCells(bv_col, <<S_BatchID>>),
                                 DataCells(bv_col, 2, [i \in 1..num_rows |-> batch_id_str])))
          /\ ws_types' = WriteCells(ws_types,
                            HeaderCells(bt_col,
                                        <<S_BatchID, S_BatchID, S_non_mandatory, S_string>>))
          /\ vplace' = Both(vplace, [f \in {<<"batch", 0>>} |-> bv_col])
          /\ tplace' = Both(tplace, [f \in {<<"batch", 0>>} |-> bt_col])
    /\ wpc' = "done"
    /\ UNCHANGED <<src_df, marketplace, selected_variant_col, selected_product_col,
                   template, batch_id, columns_meta, option1_data, option2_data,
                   vals_start_col, types_start_col>>

\* ------------------------------------------------------------ the inputs
\* Header cells as pandas reads them: text, or NaN for an empty cell.
LabelPool ==
    {NaN, <<"S","i","z","e">>, <<"S","i","z","e","_","1">>, <<"S","i","z","e","_","2">>, <<"U","n","n","a","m","e","d">>, <<"U","n","n","a","m","e","d","_","1">>}

FindColPool ==
    {<<"S","K","U">>,
     <<" ","S","K","U"," ">>,
     <<"s","k","u">>,
     <<"P","a","r","e","n","t"," ","S","K","U">>,
     <<"S","K","U"," ","C","o","d","e">>,
     <<"S","t","y","l","e"," ","C","o","d","e">>,
     <<"M","y"," ","S","t","y","l","e"," ","C","o","d","e"," ","E","x","t","r","a">>,
     <<"s","t","y","l","e","c","o","d","e">>}

\* The names the program looks up: the role names of MARKETPLACE_ID_MAP and
\* the "Parentage Level" of read_input_to_df.
RoleNames ==
    {MARKETPLACE_ID_MAP[m][k] : m \in DOMAIN MARKETPLACE_ID_MAP, k \in 1..2}
        \cup {S_ParentageLevel}

SeqsUpTo(S, n) == UNION {[1..k -> S] : k \in 0..n}

\* Source tables as read_input_to_df returns them: distinct column names,
\* and (after dropna(axis=1, how='all')) no column that is missing in every row.
InjSeqs(S, k) == {h \in [1..k -> S] : \A i, j \in 1..k : i # j => h[i] # h[j]}
LiveSeries(VP, n) == {d \in [1..n -> VP] : \E i \in 1..n : ~isna(d[i])}
Tables(HP, VP, nc, nr) ==
    UNION {
        {[columns |-> h, data |-> d, rows |-> n] :
            h \in InjSeqs(HP, k), d \in [1..k -> LiveSeries(VP, n)]} :
        k \in 0..nc, n \in 1..nr}

\* Templates: "Values" with any row-1 cells of columns 1..TplCols filled and at
\* most one filled row-2 cell; "Types" with at most one filled cell in its
\* four header rows.
S_X == <<"X">>
Filled(cells) == [k \in cells |-> S_X]
ValuesTemplates ==
    {Filled({<<1, c>> : c \in R1} \cup {<<2, c>> : c \in R2}) :
        R1 \in SUBSET (1..TplCols), R2 \in {{}} \cup {{c} : c \in 1..TplCols}}
TypesTemplates ==
    {EmptySheet} \cup {Filled({<<r, c>>}) : r \in TypesProbe, c \in 1..TplCols}
RichTemplates == {[Values |-> v, Types |-> t] : v \in ValuesTemplates, t \in TypesTemplates}
\* A template with one boilerplate column in each sheet.
PlainTemplate ==
    [Values |-> Filled({<<1, 1>>}), Types |-> Filled({<<r, 1>> : r \in TypesProbe})]

WriteHeaderPool == {<<"S","K","U">>, <<"*">>}
WriteValuePool == {<<"a">>}
OptionHeaderPool ==
    {<<"S","h","o","e"," ","S","I","Z","E">>, <<"C","o","l","o","r">>, <<"S","i","z","e"," ","C","o","l","o","u","r">>, <<"S","K","U">>}
OptionValuePool == {NaN, <<" ","M"," ">>}
IdHeaderPool == {<<"S","K","U">>, <<"P","a","r","e","n","t"," ","S","K","U">>}
IdValuePool == {NaN, <<" ">>, <<"A","1">>}

\* ------------------------------------------------------ the specifications
BatchIdle ==
    /\ remote = 0 /\ remote0 = 0 /\ localFile = Absent /\ active = {}
    /\ pc = <<>> /\ cur = <<>> /\ failed = <<>> /\ seen = <<>>
    /\ started = 0 /\ log = <<>> /\ next_id = <<>>
DedupeIdle == columns = <<>> /\ result = <<>> /\ dpc = "off"
FindIdle == fcols = <<>> /\ fname = <<>> /\ fres = NaN /\ fpc = "off"
WriterLocals ==
    /\ batch_id = 0 /\ columns_meta = <<>> /\ option1_data = <<>> /\ option2_data = <<>>
    /\ ws_vals = EmptySheet /\ ws_types = EmptySheet
    /\ vals_start_col = 0 /\ types_start_col = 0
    /\ vplace = EmptySheet /\ tplace = EmptySheet
WriterIdle ==
    /\ wpc = "off"
    /\ src_df = [columns |-> <<>>, data |-> <<>>, rows |-> 0]
    /\ marketplace = "General"
    /\ selected_variant_col = NaN /\ selected_product_col = NaN
    /\ template = [Values |-> EmptySheet, Types |-> EmptySheet]
    /\ WriterLocals

\* Two runs (sessions) sharing the counters.
Init == BatchInitWith(Procs) /\ DedupeIdle /\ FindIdle /\ WriterIdle
BatchOnly == UNCHANGED <<peekVars, dedupeVars, findVars, writerVars>>
Next ==
    \/ (\E p \in active : Call(p)) /\ BatchOnly
    \/ (\E p \in active : RemoteReadOk(p)) /\ BatchOnly
    \/ (\E p \in active : RemoteReadFail(p)) /\ BatchOnly
    \/ (\E p \in active : RemoteWriteOk(p)) /\ BatchOnly
    \/ (\E p \in active : RemoteWriteFail(p)) /\ BatchOnly
    \/ (\E p \in active : LocalRead(p)) /\ BatchOnly
    \/ (\E p \in active : LocalWrite(p)) /\ BatchOnly
Spec == Init /\ [][Next]_vars

\* Two runs that claim and peek in any order.
PeekOnly == UNCHANGED <<dedupeVars, findVars, writerVars>>
NextPeek ==
    \/ (\E p \in active : Call(p)) /\ BatchOnly
    \/ (\E p \in active : RemoteReadOk(p)) /\ BatchOnly
    \/ (\E p \in active : RemoteReadFail(p)) /\ BatchOnly
    \/ (\E p \in active : RemoteWriteOk(p)) /\ BatchOnly
    \/ (\E p \in active : RemoteWriteFail(p)) /\ BatchOnly
    \/ (\E p \in active : LocalRead(p)) /\ BatchOnly
    \/ (\E p \in active : LocalWrite(p)) /\ BatchOnly
    \/ (\E p \in active : PeekCall(p)) /\ PeekOnly
    \/ (\E p \in active : PeekRemoteOk(p)) /\ PeekOnly
    \/ (\E p \in active : PeekRemoteFail(p)) /\ PeekOnly
    \/ (\E p \in active : PeekLocal(p)) /\ PeekOnly
\* A fresh sheet (A1 holds 1) and a counter file that is absent, unreadable
\* or left by one earlier fallback.
InitPeek ==
    /\ Init
    /\ remote = 1
    /\ localFile \in {Absent, Corrupt, FileOf(2)}
SpecPeek == InitPeek /\ [][NextPeek]_vars

\* One run calling the client again and again: sequential calls.
InitSeq == BatchInitWith({1}) /\ DedupeIdle /\ FindIdle /\ WriterIdle
SpecSeq == InitSeq /\ [][Next]_vars

\* dedupe_columns applied to a header row.
Dedupe ==
    /\ dpc = "in"
    /\ result' = dedupe_columns(columns)
    /\ dpc' = "out"
    /\ UNCHANGED <<columns, batchVars, peekVars, findVars, writerVars>>
InitDedupe ==
    /\ columns \in SeqsUpTo(LabelPool, MaxLabels)
    /\ result = <<>>
    /\ dpc = "in"
    /\ BatchIdle /\ FindIdle /\ WriterIdle
NextDedupe == Dedupe
SpecDedupe == InitDedupe /\ [][NextDedupe]_vars

\* find_column_by_name_like applied to a table's columns and a role name.
Find ==
    /\ fpc = "in"
    /\ fres' = find_column_by_name_like(fcols, fname)
    /\ fpc' = "out"
    /\ UNCHANGED <<fcols, fname, batchVars, peekVars, dedupeVars, writerVars>>
InitFind ==
    /\ fcols \in SeqsUpTo(FindColPool, MaxFindCols)
    /\ fname \in RoleNames
    /\ fres = NaN
    /\ fpc = "in"
    /\ BatchIdle /\ DedupeIdle /\ WriterIdle
NextFind == Find
SpecFind == InitFind /\ [][NextFind]_vars

\* process_file, one run from a fresh counter.
WriterInit(tables, templates) ==
    /\ wpc = "claim"
    /\ src_df \in tables
    /\ template \in templates
    /\ WriterLocals
    /\ remote = 1 /\ remote0 = 1 /\ localFile = Absent /\ active = {1}
    /\ pc = [p \in Procs |-> "idle"]
    /\ cur = [p \in Procs |-> 0]
    /\ failed = [p \in Procs |-> FALSE]
    /\ seen = [p \in Procs |-> Absent]
    /\ started = 0
    /\ log = <<>>
    /\ next_id = [p \in Procs |-> 0]
    /\ DedupeIdle /\ FindIdle
NextWriter ==
    \/ (ClaimBatchId /\ UNCHANGED <<peekVars, dedupeVars, findVars>>)
    \/ (Classify /\ UNCHANGED <<batchVars, peekVars, dedupeVars, findVars>>)
    \/ (LoadWorkbook /\ UNCHANGED <<batchVars, peekVars, dedupeVars, findVars>>)
    \/ (WriteMeta /\ UNCHANGED <<batchVars, peekVars, dedupeVars, findVars>>)
    \/ (WriteOptions /\ UNCHANGED <<batchVars, peekVars, dedupeVars, findVars>>)
    \/ (AppendIdColumns /\ UNCHANGED <<batchVars, peekVars, dedupeVars, findVars>>)
    \/ (WriteBatchId /\ UNCHANGED <<batchVars, peekVars, dedupeVars, findVars>>)

\* Templates with content of their own, small tables, identifiers by role.
InitWrite ==
    /\ WriterInit(Tables(WriteHeaderPool, WriteValuePool, MaxSrcCols, 1), RichTemplates)
    /\ marketplace = "Amazon"
    /\ selected_variant_col = NaN /\ selected_product_col = NaN
SpecWrite == InitWrite /\ [][NextWriter]_vars

\* Size and colour columns.
InitOptions ==
    /\ WriterInit(Tables(OptionHeaderPool, OptionValuePool, MaxSrcCols, MaxRows),
                  {PlainTemplate})
    /\ marketplace = "General"
    /\ selected_variant_col = NaN /\ selected_product_col = NaN
SpecOptions == InitOptions /\ [][NextWriter]_vars

\* Identifier columns: picked by the caller (General) or resolved by role.
InitIds ==
    /\ WriterInit(Tables(IdHeaderPool, IdValuePool, MaxSrcCols, MaxRows), {PlainTemplate})
    /\ \/ /\ marketplace = "General"
          /\ selected_variant_col \in {S_none} \cup Range(src_df.columns)
          /\ selected_product_col \in {S_none} \cup Range(src_df.columns)
       \/ /\ marketplace \in {"Amazon", "Zivame"}
          /\ selected_variant_col = NaN /\ selected_product_col = NaN
SpecIds == InitIds /\ [][NextWriter]_vars

\* Templates whose header rows are filled up to the edge of the probe window:
\* row 1 of "Values" and one header row of "Types" hold text in columns 1..n
\* for n just below, at and just above the last probed column.
ProbeWidths == {ProbeWindow - 1, ProbeWindow, ProbeWindow + 1}
FullRows(rows, n) == Filled({<<r, c>> : r \in rows, c \in 1..n})
WideTemplates ==
    {[Values |-> FullRows(ValuesProbe, nv), Types |-> FullRows({r}, nt)] :
        nv \in ProbeWidths, nt \in ProbeWidths, r \in TypesProbe}
InitProbe ==
    /\ WriterInit(Tables(WriteHeaderPool, WriteValuePool, MaxSrcCols, 1), WideTemplates)
    /\ marketplace = "Amazon"
    /\ selected_variant_col = NaN /\ selected_product_col = NaN
SpecProbe == InitProbe /\ [][NextWriter]_vars

\* One-column tables for the classifier: a block of up to MaxHits copies of
\* one value with an image extension and a block of up to MaxOther copies of
\* one other text, in either order, with an optional missing cell in front.
ImageHeaderPool ==
    {<<"N","o","t","e","s">>, <<"T","h","u","m","b","n","a","i","l">>,
     <<"H","e","r","o"," ","S","h","o","t">>}
ImageValuePool ==
    {<<"a",".","j","p","g">>, <<"B",".","P","N","G">>, <<"a",".","j","p","g","\n">>}
OtherValuePool == {<<>>, <<"j","p","g">>}
Rep(v, n) == [i \in 1..n |-> v]
ImageSeries ==
    {Rep(NaN, b) \o (IF imgFirst THEN Rep(img, a) \o Rep(txt, c)
                                 ELSE Rep(txt, c) \o Rep(img, a)) :
        b \in 0..1, imgFirst \in BOOLEAN, a \in 0..MaxHits, c \in 0..MaxOther,
        img \in ImageValuePool, txt \in OtherValuePool}
ImageTables ==
    {[columns |-> <<h>>, data |-> <<d>>, rows |-> Len(d)] :
        h \in ImageHeaderPool,
        d \in {x \in ImageSeries : \E i \in 1..Len(x) : ~isna(x[i])}}
InitImage ==
    /\ WriterInit(ImageTables, {PlainTemplate})
    /\ marketplace = "General"
    /\ selected_variant_col = NaN /\ selected_product_col = NaN
SpecImage == InitImage /\ [][NextWriter]_vars

\* ------------------------------------------------------------- the claims
AllIdle == \A p \in active : pc[p] = "idle"

\* Each of the two runs has made one call, both over the remote path with
\* no failure anywhere.
TwoRemoteCalls ==
    /\ AllIdle
    /\ started = 2
    /\ Len(log) = 2
    /\ log[1].p # log[2].p
    /\ \A i \in 1..2 : log[i].path = "remote" /\ ~log[i].failed

\* C1: in any interleaving of two runs that each call
\* get_and_increment_batch_id once against the same remote counter, the two
\* runs receive different batch ids and the counter ends exactly 2 above
\* where it started.
C1_AtomicClaim ==
    TwoRemoteCalls => (log[1].id # log[2].id /\ remote = remote0 + 2)

\* C2: with calls made one after the other, the remote service succeeding or
\* failing on each, every call returns an id strictly greater than the id of
\* every earlier call.
C2_Monotonic ==
    \A i, j \in 1..Len(log) : i < j => log[i].id < log[j].id

\* C3: a call whose remote read or remote write raised does not fail: it
\* returns the value the local counter held when it was read (1 when there
\* is no readable counter file) and leaves the local counter at that value
\* plus 1.
C3_FallbackOnFailure ==
    \A i \in 1..Len(log) :
        /\ log[i].path # "error"
        /\ log[i].failed =>
              /\ log[i].path = "local"
              /\ log[i].id = (IF log[i].seen.st = "ok" THEN log[i].seen.v ELSE 1)
              /\ log[i].fileAfter = [st |-> "ok", v |-> log[i].id + 1]

\* C3's case: a failed remote read with no readable counter file, and a
\* failed remote write with a counter file in place.
C3_Witness ==
    /\ \E i \in 1..Len(log) : log[i].failed /\ log[i].seen.st = "corrupt"
    /\ \E i \in 1..Len(log) : log[i].failed /\ log[i].seen.st = "ok"

\* The label dedupe_columns works with for a header cell.
LabelOf(c) == IF isna(c) THEN S_Unnamed ELSE c

\* C5: dedupe_columns returns a list as long as its input, in the input's
\* order (each entry is its input label, or that label with a suffix), whose
\* entries are pairwise distinct.
C5_PairwiseDistinct ==
    dpc = "out" =>
        /\ Len(result) = Len(columns)
        /\ \A i \in 1..Len(result) :
              SubSeq(result[i], 1, Len(LabelOf(columns[i]))) = LabelOf(columns[i])
        /\ \A i, j \in 1..Len(result) : i # j => result[i] # result[j]

\* Where the columns match the role name: exactly after trimming, equal
\* after normalization, containing it after normalization.
ExactAt == {i \in 1..Len(fcols) : strip(fcols[i]) = strip(fname)}
NormEqAt == {i \in 1..Len(fcols) : norm(fcols[i]) = norm(fname)}
NormSubAt == {i \in 1..Len(fcols) : Contains(norm(fname), norm(fcols[i]))}

\* C6: find_column_by_name_like returns the first column equal to the role
\* name after trimming if there is one anywhere in the table; otherwise the
\* first column whose normalized header equals the normalized role name;
\* otherwise the first column whose normalized header contains it; otherwise
\* nothing.
C6_ResolutionPriority ==
    fpc = "out" =>
        fres = IF ExactAt # {} THEN fcols[Min(ExactAt)]
               ELSE IF NormEqAt # {} THEN fcols[Min(NormEqAt)]
               ELSE IF NormSubAt # {} THEN fcols[Min(NormSubAt)]
               ELSE NaN

\* C6's case: an exact match stands to the right of a column that matches
\* only as a substring, and the exact match is what was returned.
C6_Witness ==
    /\ fpc = "out"
    /\ ExactAt # {}
    /\ \E j \in NormSubAt : j < Min(ExactAt) /\ j \notin NormEqAt
    /\ fres = fcols[Min(ExactAt)]

Done == wpc = "done"
Fields(place) == DOMAIN place \ {<<"batch", 0>>}

\* Every non-blank cell of the template sheet tpl holds the same value in ws.
Kept(tpl, ws) == \A k \in DOMAIN tpl : ~IsBlank(tpl[k]) => CellValue(ws, k[1], k[2]) = tpl[k]

\* The series holds a value that is non-blank after trimming.
HasValueTrimmed(series) ==
    series # NaN /\ \E i \in 1..Len(series) : strip(series[i]) # <<>>

\* C4: no cell that was non-blank in the template has another value after
\* process_file has written its columns, in Values and in Types.
C4_NonDestructive ==
    Done => Kept(template.Values, ws_vals) /\ Kept(template.Types, ws_types)

\* C7: an identifier column is written only if its series has at least one
\* value that is non-blank after trimming, in both sheets.
C7_PresenceRule ==
    Done =>
        /\ (<<"id", 1>> \in DOMAIN vplace \cup DOMAIN tplace) => HasValueTrimmed(variant_series)
        /\ (<<"id", 2>> \in DOMAIN vplace \cup DOMAIN tplace) => HasValueTrimmed(product_series)

\* The size and colour candidates of the source table, by column index, and
\* a column's values trimmed.
SizeAt == {i \in 1..Len(src_df.columns) : Contains(S_size, norm(src_df.columns[i]))}
ColourAt ==
    {i \in 1..Len(src_df.columns) :
        Contains(S_color, norm(src_df.columns[i])) \/ Contains(S_colour, norm(src_df.columns[i]))}
TrimmedColumn(i) ==
    [r \in 1..src_df.rows |-> IF isna(src_df.data[i][r]) THEN <<>> ELSE strip(src_df.data[i][r])]
AllBlank == [r \in 1..src_df.rows |-> <<>>]

\* C8: Option 1 is the trimmed values of the first column whose normalized
\* header contains "size", and blank when there is none; Option 2 is the
\* trimmed values of the first column whose normalized header contains
\* "color" or "colour" exactly when there is one and it is not the chosen
\* size column, and blank otherwise; both have one entry per row.
C8_OptionSlots ==
    wpc # "claim" =>
        LET sizes == SizeAt
            colours == ColourAt
            populated2 == colours # {} /\ (sizes = {} \/ Min(colours) # Min(sizes))
        IN /\ Len(option1_data) = src_df.rows
           /\ Len(option2_data) = src_df.rows
           /\ option1_data = IF sizes # {} THEN TrimmedColumn(Min(sizes)) ELSE AllBlank
           /\ option2_data = IF populated2 THEN TrimmedColumn(Min(colours)) ELSE AllBlank

\* C8's case: a colour column stands to the left of the size column, and the
\* two options carry different values.
C8_Witness ==
    /\ Done
    /\ SizeAt # {} /\ ColourAt # {}
    /\ Min(ColourAt) < Min(SizeAt)
    /\ option1_data # option2_data
    /\ option1_data # AllBlank /\ option2_data # AllBlank

\* C9: in Values and in Types the BatchID column lies strictly to the right
\* of every other column the run wrote.
C9_BatchIdLast ==
    Done =>
        /\ \A f \in Fields(vplace) : vplace[f] < vplace[<<"batch", 0>>]
        /\ \A f \in Fields(tplace) : tplace[f] < tplace[<<"batch", 0>>]

\* C10: every field the run wrote stands at the same offset from the start
\* column in Types as in Values.
C10_Aligned ==
    Done =>
        /\ DOMAIN vplace = DOMAIN tplace
        /\ \A f \in DOMAIN vplace :
              vplace[f] - vals_start_col = tplace[f] - types_start_col

\* The probe of first_empty_col finds no column of 1..ProbeWindow whose cells
\* in header_rows are all blank.
Exhausted(ws, header_rows) ==
    \A c \in 1..ProbeWindow : \E r \in header_rows : ~IsBlank(CellValue(ws, r, c))

\* C11: when a probe of the loaded template finds no blank column inside its
\* window, the run aborts: it never reaches the point where the workbook is
\* returned.
C11_FailLoudly ==
    (Exhausted(template.Values, ValuesProbe) \/ Exhausted(template.Types, TypesProbe))
        => ~Done

\* The rule of the classifier as the claim words it: a keyword in the
\* normalized header, or at least 30% of the first 20 non-missing values
\* ending in an image file extension.
KeywordHit(header) == \E k \in IMAGE_KEYWORDS : Contains(k, norm(header))
EndsInImageExt(v) == \E e \in IMAGE_EXTS : EndsWith(Lowered(v), e)
Present(series) == SelectSeq(series, LAMBDA v : v # NaN)
Sampled(series) ==
    [i \in 1..Min({20, Len(Present(series))}) |-> Present(series)[i]]
ExtCount(series) ==
    Cardinality({i \in 1..Len(Sampled(series)) : EndsInImageExt(Sampled(series)[i])})
ImageByRule(header, series) ==
    \/ KeywordHit(header)
    \/ Len(Sampled(series)) > 0 /\ 10 * ExtCount(series) >= 3 * Len(Sampled(series))

\* C12: a column is tagged imageurlarray exactly when its normalized header
\* contains an image keyword or at least 0.30 of its first up-to-20
\* non-missing values end in an image file extension; otherwise it is tagged
\* string.
C12_ImageThreshold ==
    wpc # "claim" =>
        \A i \in 1..Len(columns_meta) :
            columns_meta[i].row4 =
                IF ImageByRule(src_df.columns[i], src_df.data[i])
                THEN S_imageurlarray ELSE S_string

\* A step of run p that belongs to a call of peek_next_batch_id: it enters,
\* leaves or moves inside the peek.
PeekPcs == {"peek_remote", "peek_local"}
PeekStepOf(p) == pc'[p] # pc[p] /\ (pc[p] \in PeekPcs \/ pc'[p] \in PeekPcs)

\* C13: no step of peek_next_batch_id, whether its remote read succeeds or
\* raises, changes the remote counter or the local fallback counter.
C13_PeekDoesNotConsume ==
    [][\A p \in Procs : PeekStepOf(p) => (remote' = remote /\ localFile' = localFile)]_vars

\* C13's case: after a claim advanced the remote counter a peek returned the
\* advanced value, and another peek is on its fallback path after a failed
\* remote read.
C13_Witness ==
    /\ Len(log) >= 1
    /\ remote # remote0
    /\ \E q \in Procs : next_id[q] = remote
    /\ \E p \in Procs : pc[p] = "peek_local"

====
